---- MODULE Spec2Model ----
(***************************************************************************)
(* Model of the ologs logging facade.                                      *)
(*                                                                         *)
(*   logger/v2 (zap.go, logger.go): Values.toVariadic, ZapLogger,          *)
(*       NewZapLogger/SetFormat, WithContext/FromContext.                  *)
(*   logger (logger.go, sentry.go): ContextLogger over logrus and the      *)
(*       CaptureError sentry sink.                                         *)
(*                                                                         *)
(* Go strings are sequences of bytes (naturals) wherever the code compares *)
(* or converts them (sort.Strings, strings.ToLower); map keys that are     *)
(* only looked up are TLA+ strings.                                        *)
(***************************************************************************)
EXTENDS Integers, Sequences, FiniteSets, TLC

VARIABLES
    \* ---- logger/v2: Values.toVariadic -------------------------------
    v,              \* the receiver map of toVariadic
    orderedSlice,   \* its keys as the range visited them, before the sort
    keyAndValues,   \* the slice toVariadic returned
    called,         \* whether toVariadic has returned
    \* ---- logger/v2: ZapLogger and the context carrier ---------------
    loggers,        \* heap of *ZapLogger: config and fixed fields of each
    derivation,     \* how each logger came to be: constructor or WithValues
    globalLogger,   \* zap's process-wide logger (0: zap's initial no-op)
    ctxs,           \* heap of context.Context values; 1 is context.Background()
    zapLast,        \* the last v2 operation: its arguments, its result, the entry it wrote
    \* ---- logger: ContextLogger and the sentry sink ------------------
    formatter,      \* l.logger.Formatter
    out,            \* l.logger.Out
    level,          \* l.logger.Level
    context,        \* l.context
    scope,          \* the sentry hub's scope: contexts and tags
    pstate,         \* "running" or "exited" (os.Exit, or a panic nobody recovered)
    last            \* the last ContextLogger operation and what it did

valVars == <<v, orderedSlice, keyAndValues, called>>
zapVars == <<loggers, derivation, globalLogger, ctxs, zapLast>>
ctxVars == <<formatter, out, level, context, scope, pstate, last>>
vars == <<valVars, zapVars, ctxVars>>

(***************************************************************************)
(* Bounds                                                                  *)
(***************************************************************************)
MaxKeyLen == 2      \* longest key of a Values map
MaxFields == 3      \* most keys in a Values map

(***************************************************************************)
(* Go strings                                                              *)
(***************************************************************************)
RECURSIVE SeqsUpTo(_, _)
SeqsUpTo(S, n) ==
    IF n = 0 THEN {<<>>}
    ELSE LET shorter == SeqsUpTo(S, n - 1)
         IN  shorter \cup {Append(s, x) : s \in shorter, x \in S}

\* Go's < on strings: bytewise lexicographic, a proper prefix is smaller.
RECURSIVE StrLess(_, _)
StrLess(a, b) ==
    IF Len(b) = 0 THEN FALSE
    ELSE IF Len(a) = 0 THEN TRUE
    ELSE IF a[1] # b[1] THEN a[1] < b[1]
    ELSE StrLess(Tail(a), Tail(b))

\* strings.ToLower on ASCII: 'A'..'Z' become 'a'..'z', every other byte is kept.
ToLower(s) == [i \in 1..Len(s) |-> IF s[i] >= 65 /\ s[i] <= 90 THEN s[i] + 32 ELSE s[i]]

(***************************************************************************)
(* logger/v2: Values.toVariadic                                            *)
(***************************************************************************)
\* sort.Strings: ascending order by StrLess (insertion sort; the result of a
\* sort of distinct keys does not depend on the algorithm).
RECURSIVE Insert(_, _)
Insert(s, k) ==
    IF Len(s) = 0 THEN <<k>>
    ELSE IF StrLess(k, s[1]) THEN <<k>> \o s
    ELSE <<s[1]>> \o Insert(Tail(s), k)

RECURSIVE InsertionSort(_)
InsertionSort(s) ==
    IF Len(s) = 0 THEN <<>> ELSE Insert(InsertionSort(Tail(s)), s[1])

SortStringsSkipped(s) == s

SortStrings(s) == InsertionSort(s)

\* The orders in which `for key := range v` may visit the keys of a map.
RangeOrders(m) ==
    {s \in [1..Cardinality(DOMAIN m) -> DOMAIN m] :
        \A i, j \in DOMAIN s : i # j => s[i] # s[j]}

RECURSIVE PairsOf(_, _)
PairsOf(m, keys) ==
    IF Len(keys) = 0 THEN <<>>
    ELSE <<keys[1], m[keys[1]]>> \o PairsOf(m, Tail(keys))

\* toVariadic with the keys ranged over in `order`.
toVariadic(m, order) == PairsOf(m, SortStrings(order))

KeyBytes == {1, 2}
Keys == SeqsUpTo(KeyBytes, MaxKeyLen)
Vals == {"x", "y"}
ValuesInputs ==
    UNION {[D -> Vals] : D \in {D \in SUBSET Keys : Cardinality(D) <= MaxFields}}

InitValues ==
    /\ v \in ValuesInputs
    /\ orderedSlice = <<>>
    /\ keyAndValues = <<>>
    /\ called = FALSE

ToVariadicCall ==
    /\ ~called
    /\ \E order \in RangeOrders(v) :
          /\ orderedSlice' = order
          /\ keyAndValues' = toVariadic(v, order)
    /\ called' = TRUE
    /\ UNCHANGED v

(***************************************************************************)
(* logger/v2: ZapLogger                                                    *)
(***************************************************************************)
MaxLoggers == 3     \* loggers ever allocated
MaxCtxs == 3        \* contexts ever derived, Background included
MaxSetters == 1     \* options passed to one NewZapLogger call

StrJson == <<106, 115, 111, 110>>                       \* "json"
StrJsonUpper == <<74, 83, 79, 78>>                      \* "JSON"
StrJsonMixed == <<74, 115, 111, 110>>                   \* "Json"
StrConsole == <<99, 111, 110, 115, 111, 108, 101>>      \* "console"
StrXml == <<120, 109, 108>>                             \* "xml"
FormatInputs == {StrJson, StrJsonUpper, StrJsonMixed, StrConsole, StrXml, <<>>}

\* zapcore levels, as zap orders them.
ZapDebug == "debug"
ZapInfo == "info"
ZapWarn == "warn"
ZapError == "error"
ZapLevelRank(l) ==
    CASE l = ZapDebug -> 0 - 1 [] l = ZapInfo -> 0 [] l = ZapWarn -> 1 [] l = ZapError -> 2

\* The zap.Config newZapLogger starts from (with newZapEncoderConfig).
DefaultConfig ==
    [Encoding |-> "json", Level |-> ZapInfo,
     EncodeLevel |-> "CapitalLevelEncoder", EncodeTime |-> "RFC3339TimeEncoder",
     CallerSkip |-> 1]

\* The Option SetFormat(format) returns, applied to config c.
SetFormat(format, c) ==
    LET c1 == [c EXCEPT !.Encoding = "console",
                        !.EncodeLevel = "CapitalColorLevelEncoder"]
    IN  IF ToLower(format) = StrJson
        THEN [c1 EXCEPT !.EncodeLevel = "LowercaseLevelEncoder",
                        !.EncodeTime = "EpochTimeEncoder"]
        ELSE c1

RECURSIVE ApplySetters(_, _)
ApplySetters(setters, c) ==
    IF Len(setters) = 0 THEN c
    ELSE ApplySetters(Tail(setters), SetFormat(setters[1], c))

EmptyValues == [k \in {} |-> ""]
ZapKeyA == <<1>>
ZapKeyB == <<2>>
ValuesA == [k \in {ZapKeyA} |-> "x"]
ValuesB == [k \in {ZapKeyB} |-> "y"]
ValuesAB == [k \in {ZapKeyA, ZapKeyB} |-> IF k = ZapKeyA THEN "x" ELSE "y"]
ZapValuesInputs == {EmptyValues, ValuesA, ValuesB}

\* Any one order of `range`: toVariadic sorts, so the order does not show.
AnOrder(m) == CHOOSE s \in RangeOrders(m) : TRUE

\* The key/value slice a level method builds from its variadic bundles.
RECURSIVE Flatten(_)
Flatten(values) ==
    IF Len(values) = 0 THEN <<>>
    ELSE toVariadic(values[1], AnOrder(values[1])) \o Flatten(Tail(values))

\* newZapLogger + NewZapLogger: build the logger, replace zap's globals.
Construct(setters) ==
    /\ loggers' = Append(loggers, [cfg |-> ApplySetters(setters, DefaultConfig),
                                   fields |-> <<>>])
    /\ derivation' = Append(derivation, [parent |-> 0, supplied |-> EmptyValues])
    /\ globalLogger' = Len(loggers) + 1

NewZapLogger(setters) ==
    /\ Len(loggers) < MaxLoggers
    /\ Construct(setters)
    /\ zapLast' = [op |-> "NewZapLogger", setters |-> setters, ret |-> Len(loggers) + 1]
    /\ UNCHANGED ctxs

DeriveInPlace(z, values) ==
    /\ loggers' = Append(
            [loggers EXCEPT ![z].fields = @ \o toVariadic(values, AnOrder(values))],
            [loggers[z] EXCEPT !.fields = @ \o toVariadic(values, AnOrder(values))])
    /\ derivation' = Append(derivation, [parent |-> z, supplied |-> values])

\* z.With(values.toVariadic()...) wrapped in a new ZapLogger: a clone of z
\* with the pairs appended to its fields.
Derive(z, values) ==
    /\ loggers' = Append(loggers,
            [loggers[z] EXCEPT !.fields = @ \o toVariadic(values, AnOrder(values))])
    /\ derivation' = Append(derivation, [parent |-> z, supplied |-> values])

WithValues(z, values) ==
    /\ Len(loggers) < MaxLoggers
    /\ Derive(z, values)
    /\ zapLast' = [op |-> "WithValues", z |-> z, values |-> values,
                   ret |-> Len(loggers) + 1]
    /\ UNCHANGED <<globalLogger, ctxs>>

\* z.Debugw/Infow/Warnw/Errorw(msg, keyAndvalues...): the core writes the entry,
\* with the logger's own fields first, when the level is enabled.
Logw(z, lvl, msg, values) ==
    /\ zapLast' =
          [op |-> lvl, z |-> z, values |-> values,
           out |-> IF ZapLevelRank(lvl) >= ZapLevelRank(loggers[z].cfg.Level)
                   THEN <<[level |-> lvl, msg |-> msg, cfg |-> loggers[z].cfg,
                           fields |-> loggers[z].fields \o Flatten(values)]>>
                   ELSE <<>>]
    /\ UNCHANGED <<loggers, derivation, globalLogger, ctxs>>

ZapLogger_Debug(z, msg, values) == Logw(z, ZapDebug, msg, values)
ZapLogger_Error(z, msg, values) == Logw(z, ZapError, msg, values)
ZapLogger_Info(z, msg, values) == Logw(z, ZapInfo, msg, values)
ZapLogger_Warn(z, msg, values) == Logw(z, ZapWarn, msg, values)

(***************************************************************************)
(* logger/v2: the context carrier                                          *)
(***************************************************************************)
Background == [parent |-> 0, bound |-> FALSE, logger |-> 0]

ValueNoAncestry(cs, c) == IF cs[c].bound THEN cs[c].logger ELSE 0

\* ctx.Value(contextKey) in heap cs: the nearest binding on c's ancestry, 0 (nil)
\* when there is none.
RECURSIVE Value(_, _)
Value(cs, c) ==
    IF cs[c].bound THEN cs[c].logger
    ELSE IF cs[c].parent = 0 THEN 0
    ELSE Value(cs, cs[c].parent)

\* A caller derives a context that carries no logger of its own (another key,
\* a deadline, a cancel function): contextKeyType is unexported, so no other
\* package's key is contextKey.
WithOtherKey(c) ==
    /\ Len(ctxs) < MaxCtxs
    /\ ctxs' = Append(ctxs, [parent |-> c, bound |-> FALSE, logger |-> 0])
    /\ zapLast' = [op |-> "WithOtherKey", ctx |-> c, ret |-> Len(ctxs) + 1]
    /\ UNCHANGED <<loggers, derivation, globalLogger>>

FromContext(c) ==
    LET logger == Value(ctxs, c)
    IN  /\ IF logger = 0
           THEN /\ Len(loggers) < MaxLoggers
                /\ Construct(<<StrJson>>)
                /\ zapLast' = [op |-> "FromContext", ctx |-> c, found |-> FALSE,
                               ret |-> Len(loggers) + 1]
           ELSE /\ zapLast' = [op |-> "FromContext", ctx |-> c, found |-> TRUE,
                               ret |-> logger]
                /\ UNCHANGED <<loggers, derivation, globalLogger>>
        /\ UNCHANGED ctxs

WithContext(c, logger, values) ==
    /\ Len(ctxs) < MaxCtxs
    /\ IF Cardinality(DOMAIN values) > 0
       THEN /\ Len(loggers) < MaxLoggers
            /\ Derive(logger, values)
            /\ ctxs' = Append(ctxs, [parent |-> c, bound |-> TRUE,
                                     logger |-> Len(loggers) + 1])
       ELSE /\ ctxs' = Append(ctxs, [parent |-> c, bound |-> TRUE, logger |-> logger])
            /\ UNCHANGED <<loggers, derivation>>
    /\ zapLast' = [op |-> "WithContext", ctx |-> c, logger |-> logger,
                   values |-> values, ret |-> Len(ctxs) + 1]
    /\ UNCHANGED globalLogger

(***************************************************************************)
(* logger: ContextLogger over logrus                                       *)
(***************************************************************************)
\* logrus.Level
PanicLevel == 0
FatalLevel == 1
ErrorLevel == 2
WarnLevel == 3
InfoLevel == 4
DebugLevel == 5
TraceLevel == 6

TextFormat == "TEXT"
JSONFormat == "JSON"

\* The logrus formatters the code installs.
JSONFormatter == [kind |-> "json", TimestampFormat |-> "", FullTimestamp |-> FALSE,
                  DisableTimestamp |-> FALSE]
TextFormatterMillis == [kind |-> "text", TimestampFormat |-> "2006-01-02T15:04:05.000",
                        FullTimestamp |-> TRUE, DisableTimestamp |-> FALSE]
TextFormatterNoTimestamp == [kind |-> "text", TimestampFormat |-> "",
                             FullTimestamp |-> FALSE, DisableTimestamp |-> TRUE]

StrTrace == <<116, 114, 97, 99, 101>>                   \* "trace"
StrDebug == <<100, 101, 98, 117, 103>>                  \* "debug"
StrDebugUpper == <<68, 69, 66, 85, 71>>                 \* "DEBUG"
StrWarning == <<119, 97, 114, 110, 105, 110, 103>>      \* "warning"
StrInfo == <<105, 110, 102, 111>>                       \* "info"
StrErrorName == <<101, 114, 114, 111, 114>>             \* "error"

NilErr == "<nil>"

\* Inputs of the ContextLogger operations.
Applications == {"svc"}
NoHostname == ""     \* os.Hostname returned an error
Hostnames == {"host1"}    \* what os.Hostname returns in the runs explored
LogLevelInputs == {StrTrace, StrDebug, StrDebugUpper, StrWarning, StrInfo, StrErrorName}
FormatArgs == {TextFormat, JSONFormat, "XML"}
LevelInputs == PanicLevel..(TraceLevel + 1)
Callers == {"caller1", "caller2"}
Messages == {"disk low"}
Parameters == {"id"}
Errs == {NilErr, "boom"}
NoFields == [k \in {} |-> ""]
ContextInputs == {NoFields, [k \in {"pct"} |-> "90"]}
SinkFieldsInputs ==
    {NoFields, [k \in {"method"} |-> "caller1"],
     [k \in {"method", "error"} |-> IF k = "method" THEN "caller1" ELSE "boom"]}

\* m with every key of over set to over's value.
Merge(m, over) ==
    [k \in DOMAIN m \cup DOMAIN over |-> IF k \in DOMAIN over THEN over[k] ELSE m[k]]

getLogrusLevel(logLevel) ==
    LET name == ToLower(logLevel)
    IN  CASE name = StrTrace -> TraceLevel
          [] name = StrDebug -> DebugLevel
          [] name = StrWarning -> WarnLevel
          [] name = StrInfo -> InfoLevel
          [] OTHER -> InfoLevel

\* The formatter SetLogFormat installs.
FormatterFor(format) ==
    IF format = JSONFormat THEN JSONFormatter ELSE TextFormatterMillis

\* prepareContext's result: the custom fields, then the logger's context over
\* them.  (Its writes to l.logger.Out and the formatter are in Prepared.)
prepareContext(ctx, customFields) == Merge(customFields, ctx)

Prepared == [formatter |-> TextFormatterNoTimestamp, out |-> "buf"]

WithError(fields, err) ==
    IF err # NilErr THEN Merge(fields, [k \in {"error"} |-> err]) ELSE fields

\* The logrus level l.log dispatches to.
Dispatch(lvl) ==
    IF lvl \in {DebugLevel, ErrorLevel, FatalLevel, PanicLevel, TraceLevel, WarnLevel}
    THEN lvl ELSE InfoLevel

\* l.log(level, ctx, entry) with the logger's formatter and output `cfg`: the
\* entries written (logrus drops an entry above the logger's level) and how
\* the call ends: Entry.Fatal calls os.Exit(1) after logging, Entry.Panic
\* panics after logging.
log(lvl, fields, entry, cfg) ==
    [entries |-> IF level >= Dispatch(lvl)
                 THEN <<[level |-> Dispatch(lvl), msg |-> entry, fields |-> fields,
                         formatter |-> cfg.formatter, out |-> cfg.out]>>
                 ELSE <<>>,
     outcome |-> CASE Dispatch(lvl) = FatalLevel -> "exit"
                   [] Dispatch(lvl) = PanicLevel -> "panic"
                   [] OTHER -> "ok"]

(***************************************************************************)
(* logger: the sentry sink                                                 *)
(***************************************************************************)
CaptureArgs(serviceName, fields, caller, entry, err) ==
    [serviceName |-> serviceName, fields |-> fields, caller |-> caller,
     entry |-> entry, err |-> err]

\* The scope after CaptureError's ConfigureScope: every iteration of the range
\* over fields sets the "log" context anew, to a map of that one key, so the
\* context left is that of the key ranged over last.
ScopeAfter(sc, call, lastKey) ==
    [contexts |-> IF DOMAIN call.fields = {}
                  THEN sc.contexts
                  ELSE Merge(sc.contexts,
                             [c \in {"log"} |-> [k \in {lastKey} |-> call.fields[k]]]),
     tags |-> Merge(sc.tags,
                    [t \in {"method", "service-name"} |->
                        IF t = "method" THEN call.caller ELSE call.serviceName])]

\* The events CaptureError hands to the hub, each with the scope applied to it.
EventsOf(sc, call) ==
    (IF call.err # NilErr
     THEN <<[kind |-> "exception", payload |-> call.err, scope |-> sc]>>
     ELSE <<>>)
    \o <<[kind |-> "message", payload |-> call.entry, scope |-> sc]>>

\* The keys a range over the fields may visit last (any key; none of an empty map).
LastKeys(fields) == IF DOMAIN fields = {} THEN {"-"} ELSE DOMAIN fields

\* CaptureError called directly.
CaptureError(serviceName, fields, caller, entry, err) ==
    LET call == CaptureArgs(serviceName, fields, caller, entry, err)
    IN  /\ pstate = "running"
        /\ \E lastKey \in LastKeys(fields) :
              /\ scope' = ScopeAfter(scope, call, lastKey)
              /\ last' = [op |-> "CaptureError", entries |-> <<>>, outcome |-> "ok",
                          captures |-> <<call>>,
                          events |-> EventsOf(ScopeAfter(scope, call, lastKey), call)]
        /\ UNCHANGED <<formatter, out, level, context, pstate>>

(***************************************************************************)
(* logger: the ContextLogger operations                                    *)
(***************************************************************************)
\* What a logging method does, from the fields it prepared: the entries it
\* writes, how it ends, and the CaptureError calls it makes (`captures`: whether
\* the method has the capture branch at all, which is reached only when l.log
\* returned).
Effect(lvl, caller, entry, fields, err, captures) ==
    LET r == log(lvl, fields, entry, Prepared)
    IN  [entries |-> r.entries,
         outcome |-> r.outcome,
         captures |->
            IF /\ captures
               /\ r.outcome = "ok"
               /\ (lvl = ErrorLevel \/ lvl = FatalLevel \/ lvl = PanicLevel)
            THEN <<CaptureArgs(context["application"], fields, caller, entry, err)>>
            ELSE <<>>]

WithContextEffect(lvl, caller, entry, ctx, err) ==
    Effect(lvl, caller, entry,
           WithError(prepareContext(context, [k \in {"method"} |-> caller]), err),
           err, TRUE)

LogEffect(lvl, caller, entry) ==
    Effect(lvl, caller, entry,
           prepareContext(context, [k \in {"method"} |-> caller]), NilErr, FALSE)

ErrorEffect(lvl, caller, entry, err) ==
    Effect(lvl, caller, entry,
           WithError(prepareContext(context, [k \in {"method"} |-> caller]), err),
           err, TRUE)

InvalidParameterEffect(lvl, caller, parameter, err) ==
    Effect(lvl, caller, "invalid parameter",
           WithError(prepareContext(context,
                        [k \in {"method", "parameter"} |->
                            IF k = "method" THEN caller ELSE parameter]), err),
           err, FALSE)

InvalidRequestBodyEffect(lvl, caller, err) ==
    Effect(lvl, caller, "invalid request body",
           WithError(prepareContext(context, [k \in {"method"} |-> caller]), err),
           err, FALSE)

\* A logging method takes effect: prepareContext has redirected the logger to
\* the buffer and installed the timestamp-less text formatter, the entries are
\* written, the captures reach the sink, and the process goes on, exits
\* (Fatal), or panics into its caller, which recovers or not.
Apply(call, eff) ==
    /\ pstate = "running"
    /\ formatter' = Prepared.formatter
    /\ out' = Prepared.out
    /\ IF Len(eff.captures) = 0
       THEN /\ scope' = scope
            /\ last' = call @@ eff @@ [events |-> <<>>]
       ELSE \E lastKey \in LastKeys(eff.captures[1].fields) :
              /\ scope' = ScopeAfter(scope, eff.captures[1], lastKey)
              /\ last' = call @@ eff @@
                    [events |-> EventsOf(ScopeAfter(scope, eff.captures[1], lastKey),
                                         eff.captures[1])]
    /\ pstate' \in CASE eff.outcome = "exit" -> {"exited"}
                     [] eff.outcome = "panic" -> {"running", "exited"}
                     [] OTHER -> {"running"}
    /\ UNCHANGED <<level, context>>

ContextLogger_WithContext(lvl, caller, entry, ctx, err) ==
    Apply([op |-> "WithContext", level |-> lvl, caller |-> caller, entry |-> entry,
           context |-> ctx, err |-> err],
          WithContextEffect(lvl, caller, entry, ctx, err))

ContextLogger_Log(lvl, caller, entry) ==
    Apply([op |-> "Log", level |-> lvl, caller |-> caller, entry |-> entry],
          LogEffect(lvl, caller, entry))

ContextLogger_Error(lvl, caller, entry, err) ==
    Apply([op |-> "Error", level |-> lvl, caller |-> caller, entry |-> entry,
           err |-> err],
          ErrorEffect(lvl, caller, entry, err))

ContextLogger_Default(lvl, caller, entry) ==
    Apply([op |-> "Default", level |-> lvl, caller |-> caller, entry |-> entry],
          LogEffect(lvl, caller, entry))

InvalidParameter(lvl, caller, parameter, err) ==
    Apply([op |-> "InvalidParameter", level |-> lvl, caller |-> caller,
           parameter |-> parameter, err |-> err],
          InvalidParameterEffect(lvl, caller, parameter, err))

InvalidRequestBody(lvl, caller, err) ==
    Apply([op |-> "InvalidRequestBody", level |-> lvl, caller |-> caller, err |-> err],
          InvalidRequestBodyEffect(lvl, caller, err))

Configured(call, eff) ==
    last' = call @@ eff @@ [captures |-> <<>>, events |-> <<>>]

SetLogFormat(format) ==
    /\ pstate = "running"
    /\ formatter' = FormatterFor(format)
    /\ Configured([op |-> "SetLogFormat", format |-> format],
                  [entries |-> <<>>, outcome |-> "ok"])
    /\ UNCHANGED <<out, level, context, scope, pstate>>

SetLogLevel(logLevel) ==
    /\ pstate = "running"
    /\ level' = getLogrusLevel(logLevel)
    /\ Configured([op |-> "SetLogLevel", logLevel |-> logLevel],
                  [entries |-> <<>>, outcome |-> "ok"])
    /\ UNCHANGED <<formatter, out, context, scope, pstate>>

\* SetSentryDsn: initSentry succeeds or fails (ok); either way one entry with no
\* fields goes through l.log, with the logger as it is configured.
SetSentryDsn(ok) ==
    /\ pstate = "running"
    /\ Configured([op |-> "SetSentryDsn", ok |-> ok],
                  log(IF ok THEN InfoLevel ELSE WarnLevel, NoFields,
                      IF ok THEN "ContextLogger will send error logs to sentry"
                      ELSE "ContextLogger will not send error logs to sentry because DSN failed to connect",
                      [formatter |-> formatter, out |-> out]))
    /\ UNCHANGED <<formatter, out, level, context, scope, pstate>>

(***************************************************************************)
(* Specifications                                                          *)
(***************************************************************************)
\* A component no operation of the specification at hand touches.
ValuesIdle ==
    v = EmptyValues /\ orderedSlice = <<>> /\ keyAndValues = <<>> /\ called = FALSE
ZapIdle ==
    /\ loggers = <<>> /\ derivation = <<>> /\ globalLogger = 0
    /\ ctxs = <<Background>> /\ zapLast = [op |-> "none"]
ContextLoggerIdle ==
    /\ formatter = TextFormatterMillis /\ out = "stdout" /\ level = InfoLevel
    /\ context = NoFields
    /\ scope = [contexts |-> NoFields, tags |-> NoFields]
    /\ pstate = "running" /\ last = [op |-> "none"]

\* ---- Values.toVariadic ------------------------------------------------
InitV == InitValues /\ ZapIdle /\ ContextLoggerIdle
NextV == ToVariadicCall /\ UNCHANGED <<zapVars, ctxVars>>
SpecValues == InitV /\ [][NextV]_vars

\* ---- ZapLogger and the context carrier --------------------------------
\* The process has built nothing yet: no logger, the background context.
InitZ == ZapIdle /\ ValuesIdle /\ ContextLoggerIdle
IdleZ == UNCHANGED <<valVars, ctxVars>>

ZapMessages == {"msg"}
NoBundles == {<<>>}
BundleInputs == {<<>>, <<ValuesA>>, <<ValuesB, ValuesA>>, <<ValuesAB>>}
PlainSetters == {<<>>}

\* Construction with every format option, and a line logged through the result.
NextZF ==
    \/ \E setters \in SeqsUpTo(FormatInputs, MaxSetters) : NewZapLogger(setters) /\ IdleZ
    \/ \E z \in 1..Len(loggers), m \in ZapMessages, b \in NoBundles :
          ZapLogger_Debug(z, m, b) /\ IdleZ
    \/ \E z \in 1..Len(loggers), m \in ZapMessages, b \in NoBundles :
          ZapLogger_Info(z, m, b) /\ IdleZ
    \/ \E z \in 1..Len(loggers), m \in ZapMessages, b \in NoBundles :
          ZapLogger_Warn(z, m, b) /\ IdleZ
    \/ \E z \in 1..Len(loggers), m \in ZapMessages, b \in NoBundles :
          ZapLogger_Error(z, m, b) /\ IdleZ
SpecZapFormat == InitZ /\ [][NextZF]_vars

\* Loggers, their children by WithValues, and lines logged through them.
NextZV ==
    \/ \E setters \in PlainSetters : NewZapLogger(setters) /\ IdleZ
    \/ \E z \in 1..Len(loggers), values \in ZapValuesInputs :
          WithValues(z, values) /\ IdleZ
    \/ \E z \in 1..Len(loggers), m \in ZapMessages, b \in BundleInputs :
          ZapLogger_Debug(z, m, b) /\ IdleZ
    \/ \E z \in 1..Len(loggers), m \in ZapMessages, b \in BundleInputs :
          ZapLogger_Info(z, m, b) /\ IdleZ
    \/ \E z \in 1..Len(loggers), m \in ZapMessages, b \in BundleInputs :
          ZapLogger_Warn(z, m, b) /\ IdleZ
    \/ \E z \in 1..Len(loggers), m \in ZapMessages, b \in BundleInputs :
          ZapLogger_Error(z, m, b) /\ IdleZ
SpecZapValues == InitZ /\ [][NextZV]_vars

\* Loggers bound into contexts and retrieved from them.
NextZC ==
    \/ \E setters \in PlainSetters : NewZapLogger(setters) /\ IdleZ
    \/ \E c \in 1..Len(ctxs) : WithOtherKey(c) /\ IdleZ
    \/ \E c \in 1..Len(ctxs) : FromContext(c) /\ IdleZ
    \/ \E c \in 1..Len(ctxs), z \in 1..Len(loggers), values \in ZapValuesInputs :
          WithContext(c, z, values) /\ IdleZ
SpecZapContext == InitZ /\ [][NextZC]_vars

\* ---- ContextLogger and the sentry sink --------------------------------
\* NewContextLogger(application, logLevel, format).
NewContextLogger(application, logLevel, format) ==
    /\ context \in {IF h = NoHostname
                     THEN [k \in {"application"} |-> application]
                     ELSE [k \in {"application", "hostname"} |->
                              IF k = "application" THEN application ELSE h] :
                     h \in Hostnames}
    /\ formatter = FormatterFor(format)
    /\ level = getLogrusLevel(logLevel)
    /\ out = "stdout"
    /\ scope = [contexts |-> NoFields, tags |-> NoFields]
    /\ pstate = "running"
    /\ last = [op |-> "NewContextLogger", entries |-> <<>>, outcome |-> "ok",
               captures |-> <<>>, events |-> <<>>]

InitC ==
    /\ \E a \in Applications, l \in LogLevelInputs, f \in FormatArgs :
          NewContextLogger(a, l, f)
    /\ ValuesIdle /\ ZapIdle

IdleC == UNCHANGED <<valVars, zapVars>>

NextC ==
    \/ \E lvl \in LevelInputs, c \in Callers, m \in Messages, x \in ContextInputs,
         e \in Errs : ContextLogger_WithContext(lvl, c, m, x, e) /\ IdleC
    \/ \E lvl \in LevelInputs, c \in Callers, m \in Messages :
          ContextLogger_Log(lvl, c, m) /\ IdleC
    \/ \E lvl \in LevelInputs, c \in Callers, m \in Messages, e \in Errs :
          ContextLogger_Error(lvl, c, m, e) /\ IdleC
    \/ \E lvl \in LevelInputs, c \in Callers, m \in Messages :
          ContextLogger_Default(lvl, c, m) /\ IdleC
    \/ \E lvl \in LevelInputs, c \in Callers, q \in Parameters, e \in Errs :
          InvalidParameter(lvl, c, q, e) /\ IdleC
    \/ \E lvl \in LevelInputs, c \in Callers, e \in Errs :
          InvalidRequestBody(lvl, c, e) /\ IdleC
    \/ \E f \in FormatArgs : SetLogFormat(f) /\ IdleC
    \/ \E l \in LogLevelInputs : SetLogLevel(l) /\ IdleC
    \/ \E ok \in BOOLEAN : SetSentryDsn(ok) /\ IdleC
    \/ \E a \in Applications, f \in SinkFieldsInputs, c \in Callers, m \in Messages,
         e \in Errs : CaptureError(a, f, c, m, e) /\ IdleC
SpecContextLogger == InitC /\ [][NextC]_vars

(***************************************************************************)
(* Properties                                                              *)
(***************************************************************************)
\* Reading a key/value slice back.
PairCount(s) == Len(s) \div 2
KeyAt(s, i) == s[2 * i - 1]
ValueAt(s, i) == s[2 * i]
PairSet(s) == {<<KeyAt(s, i), ValueAt(s, i)>> : i \in 1..PairCount(s)}
PairsOfMap(m) == {<<k, m[k]>> : k \in DOMAIN m}
\* The mapping a key/value slice rebuilds to (a later pair overwrites an earlier).
FromPairs(s) ==
    [k \in {KeyAt(s, i) : i \in 1..PairCount(s)} |->
        ValueAt(s, CHOOSE i \in 1..PairCount(s) :
                      /\ KeyAt(s, i) = k
                      /\ \A j \in (i + 1)..PairCount(s) : KeyAt(s, j) # k)]

\* C5: toVariadic returns 2*|M| alternating keys and values, the keys strictly
\* ascending in byte order, which rebuild to exactly M; the empty map gives the
\* empty slice; and no step changes the map M itself.
C5_OrderedRoundTrip ==
    /\ [](called =>
            /\ Len(keyAndValues) = 2 * Cardinality(DOMAIN v)
            /\ \A i \in 1..(PairCount(keyAndValues) - 1) :
                  StrLess(KeyAt(keyAndValues, i), KeyAt(keyAndValues, i + 1))
            /\ FromPairs(keyAndValues) = v
            /\ (DOMAIN v = {} => keyAndValues = <<>>))
    /\ [][called' => v' = v]_vars

\* C5 witness: a map of three keys, one of them two bytes long, ranged over in
\* an order that is not the sorted one, has been flattened.
C5_Witness ==
    /\ called
    /\ Cardinality(DOMAIN v) = 3
    /\ \E k \in DOMAIN v : Len(k) = 2
    /\ \E i \in 1..2 : StrLess(orderedSlice[i + 1], orderedSlice[i])
    /\ Len(keyAndValues) = 6

\* The pairs supplied to logger z and to its ancestors by WithValues.
RECURSIVE AncestryPairs(_)
AncestryPairs(z) ==
    IF derivation[z].parent = 0 THEN {}
    ELSE AncestryPairs(derivation[z].parent) \cup PairsOfMap(derivation[z].supplied)

RECURSIVE BundlePairs(_)
BundlePairs(values) ==
    IF Len(values) = 0 THEN {}
    ELSE PairsOfMap(values[1]) \cup BundlePairs(Tail(values))

IsZapLogOp(l) == l.op \in {ZapDebug, ZapInfo, ZapWarn, ZapError}

\* C6: no operation changes a logger that exists (WithValues leaves its receiver
\* as it was); a child's fixed fields are its parent's followed by exactly the
\* pairs supplied to that WithValues call; and an entry logged through a logger
\* carries the pairs of its own ancestry and of the call, so none that only a
\* sibling was given.
C6_WithValuesNonMutating ==
    /\ [][\A z \in 1..Len(loggers) : loggers'[z] = loggers[z]]_vars
    /\ [](\A z \in 1..Len(loggers) :
            LET p == derivation[z].parent
            IN  IF p = 0 THEN loggers[z].fields = <<>>
                ELSE /\ Len(loggers[z].fields)
                          = Len(loggers[p].fields)
                            + 2 * Cardinality(DOMAIN derivation[z].supplied)
                     /\ SubSeq(loggers[z].fields, 1, Len(loggers[p].fields))
                          = loggers[p].fields
                     /\ PairSet(loggers[z].fields)
                          = PairSet(loggers[p].fields)
                            \cup PairsOfMap(derivation[z].supplied))
    /\ [](IsZapLogOp(zapLast) =>
            \A e \in {zapLast.out[i] : i \in 1..Len(zapLast.out)} :
                PairSet(e.fields) = AncestryPairs(zapLast.z) \cup BundlePairs(zapLast.values))

\* C6 witness: a parent with two children that were given different fields, and
\* an entry written through the first child.
C6_Witness ==
    /\ IsZapLogOp(zapLast)
    /\ Len(zapLast.out) = 1
    /\ Len(loggers) = 3
    /\ derivation[2].parent = 1 /\ derivation[3].parent = 1
    /\ DOMAIN derivation[2].supplied = {ZapKeyA}
    /\ DOMAIN derivation[3].supplied = {ZapKeyB}
    /\ zapLast.z = 2
    /\ loggers[1].fields = <<>>

\* The nearest context on c's ancestry (c included) that WithContext bound a
\* logger to; 0 when there is none.
RECURSIVE NearestBound(_)
NearestBound(c) ==
    IF ctxs[c].bound THEN c
    ELSE IF ctxs[c].parent = 0 THEN 0
    ELSE NearestBound(ctxs[c].parent)

\* C7: FromContext returns the logger of the nearest binding on the context's
\* ancestry, and without any binding a newly built logger (never nil);
\* WithContext binds the logger itself when the values are empty and a child
\* by WithValues when they are not; and no operation changes a context that
\* exists, so what its ancestors retrieve stays as it was.
C7_RetrieveNearestBinding ==
    /\ [](zapLast.op = "FromContext" =>
            IF NearestBound(zapLast.ctx) # 0
            THEN zapLast.ret = ctxs[NearestBound(zapLast.ctx)].logger
            ELSE /\ zapLast.ret = Len(loggers)
                 /\ zapLast.ret >= 1
                 /\ derivation[zapLast.ret].parent = 0
                 /\ loggers[zapLast.ret].fields = <<>>)
    /\ [](zapLast.op = "WithContext" =>
            LET c == ctxs[zapLast.ret]
            IN  /\ c.bound
                /\ c.parent = zapLast.ctx
                /\ IF DOMAIN zapLast.values = {}
                   THEN c.logger = zapLast.logger
                   ELSE /\ c.logger = Len(loggers)
                        /\ derivation[c.logger].parent = zapLast.logger
                        /\ derivation[c.logger].supplied = zapLast.values)
    /\ [][\A c \in 1..Len(ctxs) : ctxs'[c] = ctxs[c]]_vars

\* C7 witness: a logger retrieved through an unbound context from the binding
\* of its parent, which carries a child logger made by WithValues.
C7_Witness ==
    /\ zapLast.op = "FromContext"
    /\ zapLast.found
    /\ ~ctxs[zapLast.ctx].bound
    /\ ctxs[ctxs[zapLast.ctx].parent].bound
    /\ derivation[zapLast.ret].parent # 0

\* C8: FromContext on a context without a binding leaves zap's process-wide
\* logger as it was.
C8_RetrieveKeepsGlobals ==
    [][(zapLast'.op = "FromContext" /\ ~zapLast'.found /\ zapLast' # zapLast)
          => globalLogger' = globalLogger]_vars

\* C4: a logger built with the one option SetFormat(f) encodes as JSON with
\* lowercase levels and epoch times when f is "json" in any case, and as
\* console text with coloured capital levels for every other f.
C4_FormatSelectsEncoding ==
    (zapLast.op = "NewZapLogger" /\ Len(zapLast.setters) = 1) =>
        LET cfg == loggers[zapLast.ret].cfg
        IN  IF ToLower(zapLast.setters[1]) = StrJson
            THEN /\ cfg.Encoding = "json"
                 /\ cfg.EncodeLevel = "LowercaseLevelEncoder"
                 /\ cfg.EncodeTime = "EpochTimeEncoder"
            ELSE /\ cfg.Encoding = "console"
                 /\ cfg.EncodeLevel = "CapitalColorLevelEncoder"

SeqRange(s) == {s[i] : i \in 1..Len(s)}
IsCapturingOp(l) == l.op \in {"WithContext", "Error"}
IsLoggingOp(l) ==
    l.op \in {"WithContext", "Log", "Error", "Default", "InvalidParameter",
              "InvalidRequestBody"}

\* C1: WithContext and Error call the capture sink exactly once, with the
\* application name, the merged fields, the caller, the message and the error,
\* when the level is Error, Fatal or Panic, and never for any other level.
C1_CaptureOnErrorFatalPanic ==
    IsCapturingOp(last) =>
        IF last.level \in {ErrorLevel, FatalLevel, PanicLevel}
        THEN /\ Len(last.captures) = 1
             /\ last.captures[1].serviceName = context["application"]
             /\ last.captures[1].caller = last.caller
             /\ last.captures[1].entry = last.entry
             /\ last.captures[1].err = last.err
             /\ \A e \in SeqRange(last.entries) : last.captures[1].fields = e.fields
        ELSE Len(last.captures) = 0

\* C2: the entry WithContext emits carries application = the logger's
\* application, method = the caller, every pair of the context passed to the
\* call, and an "error" key exactly when the error is not nil.
C2_EntryCarriesMergedFields ==
    last.op = "WithContext" =>
        \A e \in SeqRange(last.entries) :
            /\ "application" \in DOMAIN e.fields
            /\ e.fields["application"] = context["application"]
            /\ "method" \in DOMAIN e.fields
            /\ e.fields["method"] = last.caller
            /\ \A k \in DOMAIN last.context :
                  k \in DOMAIN e.fields /\ e.fields[k] = last.context[k]
            /\ ("error" \in DOMAIN e.fields) <=> (last.err # NilErr)

\* C3: SetLogFormat installs the JSON encoder for JSON and the timestamped text
\* encoder otherwise; a logging call leaves the installed encoder as it is and
\* encodes its entries with it.
C3_FormatFollowsSetLogFormat ==
    [][/\ (last'.op = "SetLogFormat" /\ last'.format = JSONFormat)
            => formatter'.kind = "json"
       /\ (last'.op = "SetLogFormat" /\ last'.format # JSONFormat)
            => (formatter'.kind = "text" /\ ~formatter'.DisableTimestamp)
       /\ (IsLoggingOp(last') /\ pstate = "running")
            => /\ formatter' = formatter
               /\ \A e \in SeqRange(last'.entries) : e.formatter = formatter
      ]_vars

\* C9: InvalidParameter does what WithContext does with the message "invalid
\* parameter" and the context {parameter: name}, and InvalidRequestBody what
\* WithContext does with "invalid request body" and no context: the same
\* entries and the same capture calls.
C9_WrappersAreSugar ==
    [][/\ (last'.op = "InvalidParameter" /\ pstate = "running")
            => LET w == WithContextEffect(last'.level, last'.caller, "invalid parameter",
                                          [k \in {"parameter"} |-> last'.parameter],
                                          last'.err)
               IN  last'.entries = w.entries /\ last'.captures = w.captures
       /\ (last'.op = "InvalidRequestBody" /\ pstate = "running")
            => LET w == WithContextEffect(last'.level, last'.caller,
                                          "invalid request body", NoFields, last'.err)
               IN  last'.entries = w.entries /\ last'.captures = w.captures
      ]_vars

\* C10: after CaptureError the events carry a "log" context block holding every
\* pair of the fields and the tags method and service-name; there is an
\* exception event exactly when the error is not nil, and one message event.
C10_SinkAttachesAllFields ==
    Len(last.captures) = 1 =>
        LET call == last.captures[1]
            events == SeqRange(last.events)
        IN  /\ \A e \in events :
                  /\ DOMAIN call.fields # {} =>
                        /\ "log" \in DOMAIN e.scope.contexts
                        /\ \A k \in DOMAIN call.fields :
                              /\ k \in DOMAIN e.scope.contexts["log"]
                              /\ e.scope.contexts["log"][k] = call.fields[k]
                  /\ "method" \in DOMAIN e.scope.tags
                  /\ e.scope.tags["method"] = call.caller
                  /\ "service-name" \in DOMAIN e.scope.tags
                  /\ e.scope.tags["service-name"] = call.serviceName
            /\ (\E e \in events : e.kind = "exception") <=> (call.err # NilErr)
            /\ Cardinality({i \in 1..Len(last.events) :
                              last.events[i].kind = "exception"}) <= 1
            /\ Cardinality({i \in 1..Len(last.events) :
                              /\ last.events[i].kind = "message"
                              /\ last.events[i].payload = call.entry}) = 1

====
